---------------------------- MODULE Spec2Model ----------------------------
(***************************************************************************)
(* Model of the Maya VAT exporter: core.encode_vat (src/core.py) with the  *)
(* helpers it calls in src/utils.py and src/exporter.py.                   *)
(*                                                                         *)
(* One call of encode_vat is followed step by step (pc); every host        *)
(* command that can raise has a raising outcome.  Numbers are exact:       *)
(* positions are integers (a fixed-point scale of the host's floats, which *)
(* remap_value is invariant under), UV coordinates are fractions <<n, d>>. *)
(* Time is counted in half frames so that a fractional current time and    *)
(* the int() of get_current_frame are both representable.                  *)
(* The normal texture (include_normals) and the space tag are left out.    *)
(***************************************************************************)
EXTENDS Integers, Sequences, FiniteSets, TLC

\* ------------------------------------------------------------- bounds
MaxVerts == 2     \* meshes have 0..MaxVerts vertices
MaxFrame == 2     \* explicit frame arguments range over 0..MaxFrame
MaxCoord == 6     \* remap_value inputs of SpecRemap range over -MaxCoord..MaxCoord

\* ------------------------------------------------------------- constants
Inf == 1000000    \* float('inf'); -Inf is float('-inf')

None == <<>>      \* Python None; an integer argument n is <<n>>
Some(n) == <<n>>

UV_SET_NAME == "VAT_UV"

Frames == 0..MaxFrame
FrameArgs == {None} \cup {Some(f) : f \in Frames}
PlaybackRanges == {<<1, 2>>}
InitialTimes == {2, 7}          \* half frames: frame 1 and frame 3.5
PoseIds == {0, 1, 2}

\* The position of vertex i (1-based here, vtx i-1 in Maya) in pose p.
\* Pose 0 is the rest pose; z never moves.
Pose(p, i) ==
  CASE p = 0 -> <<i, 0, 5>>
    [] p = 1 -> <<i + (IF i % 2 = 1 THEN 1 ELSE -2), i, 5>>
    [] OTHER -> <<i - 3, 2 - 3 * i, 5>>

VARIABLES
  \* host scene
  meshExists,      \* cmds.objExists(mesh_name)
  numVertices,     \* MFnMesh.numVertices / polyEvaluate(vertex=True)
  playback,        \* <<min, max>> of cmds.playbackOptions
  hostTime,        \* cmds.currentTime, in half frames
  hostPose,        \* frame -> pose the host evaluated there (frames visited so far)
  hasShape,        \* listRelatives(mesh_name, shapes=True, type='mesh') is not empty
  uvSets,          \* names of the UV sets of the mesh shape
  currentUVSet,    \* the current UV set
  uvCoords,        \* per vertex <<u, v>> of the set UV_SET_NAME, fractions <<n, d>>
  uvEdits,         \* number of UV-editing commands the host has executed
  \* file system
  dirExists,       \* object_dir exists
  pngFile,         \* <<"absent">>, <<"partial">> or
                   \* <<"complete", width, height, rows, writes>>
  jsonFile,        \* <<"absent">>, <<"partial">> or <<"complete", json_data>>
  fbxFile,         \* <<"absent">> or <<"complete", time, uvSets at export>>
  \* encode_vat frame
  pc,
  args,            \* the call's arguments
  frame_start, frame_end, total_frames, num_verts, num_frames,
  texture_start_frame, original_frame, proxy_positions, all_deltas,
  frame,           \* loop variable of the sampling loop
  minmax,          \* <<min_x, min_y, min_z, max_x, max_y, max_z>>
  image_data, uv_result, fbx_path, result,
  error,           \* the exception the call raised, "" while there is none
  \* observers
  timeAtCall,      \* hostTime when the call began
  cursorWrites,    \* number of cmds.currentTime(..., edit=True) in this call
  \* a stand-alone call of utils.remap_value
  remapCall,       \* << >>, or its arguments and its result
  \* the 'Create VAT UV' button of the window
  uiCall           \* << >>, or the settings, the frame count passed and the status

hostVars == <<meshExists, numVertices, playback, hostTime, hostPose, hasShape, uvSets,
              currentUVSet, uvCoords, uvEdits>>
fileVars == <<dirExists, pngFile, jsonFile, fbxFile>>
localVars == <<frame_start, frame_end, total_frames, num_verts, num_frames,
               texture_start_frame, original_frame, proxy_positions, all_deltas,
               frame, minmax, image_data, uv_result, fbx_path, result, error>>
encodeVars == <<hostVars, fileVars, pc, args, localVars, timeAtCall, cursorWrites>>
vars == <<encodeVars, remapCall, uiCall>>

OldUV == <<<<0, 1>>, <<0, 1>>>>   \* a UV left by whatever made the set earlier

Init ==
  /\ meshExists \in BOOLEAN
  /\ numVertices \in (IF meshExists THEN 0..MaxVerts ELSE {0})
  /\ playback \in PlaybackRanges
  /\ hostTime \in InitialTimes
  /\ hostPose = << >>
  /\ hasShape \in (IF meshExists THEN BOOLEAN ELSE {FALSE})
  /\ uvSets \in (IF hasShape THEN {{"map1"}, {"map1", UV_SET_NAME}} ELSE {{}})
  /\ currentUVSet = "map1"
  /\ uvCoords = IF UV_SET_NAME \in uvSets THEN [i \in 1..numVertices |-> OldUV] ELSE << >>
  /\ uvEdits = 0
  /\ dirExists = FALSE
  /\ pngFile = <<"absent">>
  /\ jsonFile = <<"absent">>
  /\ fbxFile = <<"absent">>
  /\ pc = "idle"
  /\ args = << >>
  /\ frame_start = 0 /\ frame_end = 0 /\ total_frames = 0 /\ num_verts = 0
  /\ num_frames = 0 /\ texture_start_frame = 0 /\ original_frame = 0
  /\ proxy_positions = << >> /\ all_deltas = << >> /\ frame = 0
  /\ minmax = << >> /\ image_data = << >> /\ uv_result = << >> /\ result = << >>
  /\ fbx_path = None /\ error = ""
  /\ timeAtCall = hostTime
  /\ cursorWrites = 0
  /\ remapCall = << >>
  /\ uiCall = << >>

\* encode_vat(mesh_name, output_dir, frame_start, frame_end, ...) is called.
Call ==
  /\ pc = "idle"
  /\ \E fs \in FrameArgs, fe \in FrameArgs, skip \in BOOLEAN,
        exp \in BOOLEAN, force \in BOOLEAN :
       args' = [frame_start |-> fs, frame_end |-> fe, skip_first_frame |-> skip,
                export_mesh |-> exp, force_uv |-> force]
  /\ pc' = "validate"
  /\ timeAtCall' = hostTime
  /\ UNCHANGED <<hostVars, fileVars, localVars, cursorWrites, remapCall, uiCall>>

\* ------------------------------------------------------------- helpers
Abs(n) == IF n < 0 THEN -n ELSE n

\* Python int() of the quotient n/d: truncation toward zero.
TruncDiv(n, d) ==
  LET q == Abs(n) \div Abs(d)
  IN IF (n < 0) = (d < 0) THEN q ELSE -q

MinOf(S) == CHOOSE x \in S : \A y \in S : x <= y
MaxOf(S) == CHOOSE x \in S : \A y \in S : x >= y

\* Python's `x or d` on an optional integer: d when x is None or 0.
PyOr(x, d) == IF x = None \/ x = Some(0) THEN d ELSE x[1]

get_frame_range == playback

\* int(cmds.currentTime(q=True))
get_current_frame == TruncDiv(hostTime, 2)

\* cmds.currentTime(frame, edit=True), as the new value of hostTime
set_current_frame(f) == 2 * f

\* What the host returns for the mesh in pose p.
Positions(p) == [i \in 1..numVertices |-> Pose(p, i)]

\* Poses the host may evaluate at frame f: the one it evaluated there before,
\* any pose when f was not visited yet.
PosesAt(f) == IF f \in DOMAIN hostPose THEN {hostPose[f]} ELSE PoseIds

Visit(f, p) == IF f \in DOMAIN hostPose THEN hostPose ELSE hostPose @@ (f :> p)

Deltas(positions, proxy) ==
  [i \in 1..Len(positions) |->
     <<positions[i][1] - proxy[i][1],
       positions[i][2] - proxy[i][2],
       positions[i][3] - proxy[i][3]>>]

AxisValues(all_positions, a) ==
  UNION {{all_positions[f][i][a] : i \in 1..Len(all_positions[f])} :
           f \in DOMAIN all_positions}

find_min_max(all_positions) ==
  <<MinOf(AxisValues(all_positions, 1) \cup {Inf}),
    MinOf(AxisValues(all_positions, 2) \cup {Inf}),
    MinOf(AxisValues(all_positions, 3) \cup {Inf}),
    MaxOf(AxisValues(all_positions, 1) \cup {-Inf}),
    MaxOf(AxisValues(all_positions, 2) \cup {-Inf}),
    MaxOf(AxisValues(all_positions, 3) \cup {-Inf})>>

\* remap_value with the ratio taken from 0 instead of from old_min.
remap_value_unshifted(value, old_min, old_max, new_min, new_max) ==
  IF old_max = old_min
    THEN new_min
    ELSE TruncDiv(new_min * (old_max - old_min) + value * (new_max - new_min),
                  old_max - old_min)

\* remap_value rounding to the nearest integer instead of truncating.
remap_value_rounded(value, old_min, old_max, new_min, new_max) ==
  IF old_max = old_min
    THEN new_min
    ELSE TruncDiv(2 * (new_min * (old_max - old_min)
                         + (value - old_min) * (new_max - new_min))
                    + (old_max - old_min),
                  2 * (old_max - old_min))

remap_value(value, old_min, old_max, new_min, new_max) ==
  IF old_max = old_min
    THEN new_min
    ELSE TruncDiv(new_min * (old_max - old_min)
                    + (value - old_min) * (new_max - new_min),
                  old_max - old_min)

\* Every channel remapped with the range of the x axis.
PixelRow_XRangeOnly(deltas, mm) ==
  [i \in 1..Len(deltas) |->
     <<remap_value(deltas[i][1], mm[1], mm[4], 0, 255),
       remap_value(deltas[i][2], mm[1], mm[4], 0, 255),
       remap_value(deltas[i][3], mm[1], mm[4], 0, 255)>>]

\* One row of the position grid: lines 110-114.
PixelRow(deltas, mm) ==
  [i \in 1..Len(deltas) |->
     <<remap_value(deltas[i][1], mm[1], mm[4], 0, 255),
       remap_value(deltas[i][2], mm[2], mm[5], 0, 255),
       remap_value(deltas[i][3], mm[3], mm[6], 0, 255)>>]

\* The first texture row taken from frame_start whatever skip_first_frame is.
FirstTextureFrame_NoSkip(fs, skip) == fs

FirstTextureFrame(fs, skip) == IF skip THEN fs + 1 ELSE fs

TextureRows(total, skip) == IF skip THEN total - 1 ELSE total

\* for frame in range(first, last + 1): image_data.append(row)
RECURSIVE ImageRows(_, _, _, _)
ImageRows(first, last, deltas, mm) ==
  IF first > last
    THEN << >>
    ELSE <<PixelRow(deltas[first], mm)>> \o ImageRows(first + 1, last, deltas, mm)

\* ------------------------------------------------------------- encode_vat
\* Lines 39-58: mesh validation, frame range, counts, skip_first_frame validation.
EffectiveStart ==
  IF args.frame_start = None \/ args.frame_end = None
    THEN PyOr(args.frame_start, get_frame_range[1])
    ELSE args.frame_start[1]

EffectiveEnd ==
  IF args.frame_start = None \/ args.frame_end = None
    THEN PyOr(args.frame_end, get_frame_range[2])
    ELSE args.frame_end[1]

\* The check with the bound off by one.
SkipRejected_OffByOne(total) == args.skip_first_frame /\ total < 1

SkipRejected(total) == args.skip_first_frame /\ total < 2

Validate ==
  /\ pc = "validate"
  /\ IF ~meshExists
       THEN /\ pc' = "raised"
            /\ error' = "ValueError: mesh not found"
            /\ UNCHANGED <<frame_start, frame_end, total_frames, num_verts,
                           num_frames, texture_start_frame>>
       ELSE LET fs == EffectiveStart
                fe == EffectiveEnd
                total == fe - fs + 1
            IN /\ frame_start' = fs
               /\ frame_end' = fe
               /\ total_frames' = total
               /\ num_verts' = numVertices
               /\ IF SkipRejected(total)
                    THEN /\ pc' = "raised"
                         /\ error' = "ValueError: skip first frame"
                         /\ UNCHANGED <<num_frames, texture_start_frame>>
                    ELSE /\ pc' = "mkdir"
                         /\ error' = error
                         /\ num_frames' = TextureRows(total, args.skip_first_frame)
                         /\ texture_start_frame' =
                              FirstTextureFrame(fs, args.skip_first_frame)
  /\ UNCHANGED <<hostVars, fileVars, args, remapCall, uiCall, original_frame, proxy_positions,
                 all_deltas, frame, minmax, image_data, uv_result, fbx_path,
                 result, timeAtCall, cursorWrites>>

\* Lines 60-66: create the output directory, remember the current frame.
EnsureDirectory ==
  /\ pc = "mkdir"
  /\ dirExists' = TRUE
  /\ original_frame' = get_current_frame
  /\ pc' = "proxy"
  /\ UNCHANGED <<hostVars, pngFile, jsonFile, fbxFile, args, remapCall, uiCall, frame_start,
                 frame_end, total_frames, num_verts, num_frames,
                 texture_start_frame, proxy_positions, all_deltas, frame, minmax,
                 image_data, uv_result, fbx_path, result, error, timeAtCall,
                 cursorWrites>>

\* The proxy pose captured one frame late.
ProxyFrame_Late == frame_start + 1

\* The frame at which the proxy pose is captured (line 69).
ProxyFrame == frame_start

\* Lines 68-70: the proxy pose.
CaptureProxy ==
  /\ pc = "proxy"
  /\ hostTime' = set_current_frame(ProxyFrame)
  /\ cursorWrites' = cursorWrites + 1
  /\ \E p \in PosesAt(ProxyFrame) :
       /\ hostPose' = Visit(ProxyFrame, p)
       /\ proxy_positions' = Positions(p)
  /\ frame' = frame_start
  /\ pc' = IF frame_start <= frame_end THEN "sample" ELSE "quantize"
  /\ UNCHANGED <<meshExists, numVertices, playback, hasShape, uvSets, currentUVSet,
                 uvCoords, uvEdits, fileVars, args, remapCall, uiCall, frame_start, frame_end,
                 total_frames, num_verts, num_frames, texture_start_frame,
                 original_frame, all_deltas, minmax, image_data, uv_result,
                 fbx_path, result, error, timeAtCall>>

\* get_vertex_positions raises after the time cursor was moved.
CaptureProxyRaises ==
  /\ pc = "proxy"
  /\ hostTime' = set_current_frame(ProxyFrame)
  /\ cursorWrites' = cursorWrites + 1
  /\ pc' = "raised"
  /\ error' = "RuntimeError: get_vertex_positions"
  /\ UNCHANGED <<meshExists, numVertices, playback, hostPose, hasShape, uvSets,
                 currentUVSet, uvCoords, uvEdits, fileVars, args, remapCall, uiCall, frame_start,
                 frame_end, total_frames, num_verts, num_frames,
                 texture_start_frame, original_frame, proxy_positions,
                 all_deltas, frame, minmax, image_data, uv_result, fbx_path,
                 result, timeAtCall>>

\* Lines 76-93: one iteration of the sampling loop.
SampleFrame ==
  /\ pc = "sample"
  /\ hostTime' = set_current_frame(frame)
  /\ cursorWrites' = cursorWrites + 1
  /\ \E p \in PosesAt(frame) :
       /\ hostPose' = Visit(frame, p)
       /\ all_deltas' = all_deltas @@ (frame :> Deltas(Positions(p), proxy_positions))
  /\ frame' = frame + 1
  /\ pc' = IF frame + 1 <= frame_end THEN "sample" ELSE "quantize"
  /\ UNCHANGED <<meshExists, numVertices, playback, hasShape, uvSets, currentUVSet,
                 uvCoords, uvEdits, fileVars, args, remapCall, uiCall, frame_start, frame_end,
                 total_frames, num_verts, num_frames, texture_start_frame,
                 original_frame, proxy_positions, minmax, image_data, uv_result,
                 fbx_path, result, error, timeAtCall>>

\* get_vertex_positions (or get_vertex_normals) raises inside the loop.
SampleFrameRaises ==
  /\ pc = "sample"
  /\ hostTime' = set_current_frame(frame)
  /\ cursorWrites' = cursorWrites + 1
  /\ pc' = "raised"
  /\ error' = "RuntimeError: get_vertex_positions"
  /\ UNCHANGED <<meshExists, numVertices, playback, hostPose, hasShape, uvSets,
                 currentUVSet, uvCoords, uvEdits, fileVars, args, remapCall, uiCall, frame_start,
                 frame_end, total_frames, num_verts, num_frames,
                 texture_start_frame, original_frame, proxy_positions,
                 all_deltas, frame, minmax, image_data, uv_result, fbx_path,
                 result, timeAtCall>>

\* The range taken over the frames written to the texture only.
RangeInput_WrittenOnly ==
  [f \in {g \in DOMAIN all_deltas : g >= texture_start_frame} |-> all_deltas[f]]

\* The argument of find_min_max (line 96): every sampled frame.
RangeInput == all_deltas

\* Lines 95-116: global range and the pixel grid.
Quantize ==
  /\ pc = "quantize"
  /\ minmax' = find_min_max(RangeInput)
  /\ image_data' = ImageRows(texture_start_frame, frame_end, all_deltas, minmax')
  /\ pc' = "save_png"
  /\ UNCHANGED <<hostVars, fileVars, args, remapCall, uiCall, frame_start, frame_end, total_frames,
                 num_verts, num_frames, texture_start_frame, original_frame,
                 proxy_positions, all_deltas, frame, uv_result, fbx_path, result,
                 error, timeAtCall, cursorWrites>>

\* save_png(image_data, width, height, filepath), lines 193-231: the file is
\* opened (created or truncated), then struct.pack rejects a negative size or
\* a channel outside 0..255 and indexing fails on a missing pixel.
PackFails(data, width, height) ==
  \/ width < 0
  \/ height < 0
  \/ \E y \in 1..height :
       \/ y > Len(data)
       \/ \E x \in 1..width :
            \/ x > Len(data[y])
            \/ \E c \in 1..3 : data[y][x][c] < 0 \/ data[y][x][c] > 255

PngPixels(data, width, height) ==
  [y \in 1..height |-> [x \in 1..width |-> data[y][x]]]

\* struct.pack('>I', n): four bytes, most significant first.
BE32(n) ==
  <<(n \div 16777216) % 256, (n \div 65536) % 256, (n \div 256) % 256, n % 256>>

\* b'\x89PNG\r\n\x1a\n'
PNG_SIGNATURE == <<137, 80, 78, 71, 13, 10, 26, 10>>

\* b'IHDR', b'IDAT', b'IEND'
IHDR == <<73, 72, 68, 82>>
IDAT == <<73, 68, 65, 84>>
IEND == <<73, 69, 78, 68>>

\* struct.pack('>I', zlib.crc32(chunk) & 0xffffffff): the library checksum is
\* left uninterpreted, a value determined by the bytes it was computed over.
crc32(chunk) == <<"crc32", chunk>>

\* The three writes of write_chunk with the checksum over the payload alone.
write_chunk_CrcOfData(chunk_type, data) ==
  <<BE32(Len(data)), chunk_type \o data, crc32(data)>>

\* write_chunk(f, chunk_type, data), lines 203-209: its three f.write calls.
write_chunk(chunk_type, data) ==
  <<BE32(Len(data)), chunk_type \o data, crc32(chunk_type \o data)>>

\* struct.pack('>IIBBBBB', width, height, 8, 2, 0, 0, 0)
ihdr_data(width, height) == BE32(width) \o BE32(height) \o <<8, 2, 0, 0, 0>>

\* The pixels of one row, struct.pack('BBB', r, g, b) each (lines 222-224).
RECURSIVE RowBytes(_, _, _)
RowBytes(row, x, width) ==
  IF x > width
    THEN << >>
    ELSE <<row[x][1], row[x][2], row[x][3]>> \o RowBytes(row, x + 1, width)

\* A scanline without the leading filter byte.
ScanLine_NoFilter(row, width) == RowBytes(row, 1, width)

\* One scanline: the filter byte 0, then the pixels (lines 221-224).
ScanLine(row, width) == <<0>> \o RowBytes(row, 1, width)

\* raw_data of lines 219-224, from row y on.
RECURSIVE raw_data(_, _, _, _)
raw_data(data, y, width, height) ==
  IF y > height
    THEN << >>
    ELSE ScanLine(data[y], width) \o raw_data(data, y + 1, width, height)

RECURSIVE SumBytes(_, _)
SumBytes(bytes, n) == IF n = 0 THEN 0 ELSE bytes[n] + SumBytes(bytes, n - 1)

RECURSIVE AdlerB(_, _)
AdlerB(bytes, n) ==
  IF n = 0 THEN 0
           ELSE (((1 + SumBytes(bytes, n)) % 65521) + AdlerB(bytes, n - 1)) % 65521

\* The Adler-32 trailer of a zlib stream, four bytes.
Adler32(bytes) ==
  LET a == (1 + SumBytes(bytes, Len(bytes))) % 65521
      b == AdlerB(bytes, Len(bytes))
  IN <<b \div 256, b % 256, a \div 256, a % 256>>

\* zlib.compress(raw, 9), line 226: a zlib stream that inflates to raw. The
\* header is the one of level 9; the deflate body is written as one stored
\* block, so the bytes of the body are not the ones the library picks, what
\* they inflate to is.
zlib_compress(raw) ==
  LET n == Len(raw)
  IN <<120, 218>>
       \o <<1, n % 256, n \div 256, (65535 - n) % 256, (65535 - n) \div 256>>
       \o raw \o Adler32(raw)

\* Everything save_png writes, one element per f.write call (lines 211-231).
PngWrites(data, width, height) ==
  <<PNG_SIGNATURE>>
    \o write_chunk(IHDR, ihdr_data(width, height))
    \o write_chunk(IDAT, zlib_compress(raw_data(data, 1, width, height)))
    \o write_chunk(IEND, << >>)

\* Step 5, lines 118-120.
SavePNG ==
  /\ pc = "save_png"
  /\ IF PackFails(image_data, num_verts, num_frames)
       THEN /\ pngFile' = <<"partial">>
            /\ pc' = "raised"
            /\ error' = "struct.error or IndexError in save_png"
       ELSE /\ pngFile' = <<"complete", num_verts, num_frames,
                            PngPixels(image_data, num_verts, num_frames),
                            PngWrites(image_data, num_verts, num_frames)>>
            /\ pc' = "write_json"
            /\ error' = error
  /\ UNCHANGED <<hostVars, dirExists, jsonFile, fbxFile, args, remapCall, uiCall, frame_start,
                 frame_end, total_frames, num_verts, num_frames,
                 texture_start_frame, original_frame, proxy_positions,
                 all_deltas, frame, minmax, image_data, uv_result, fbx_path,
                 result, timeAtCall, cursorWrites>>

\* An I/O error in save_png: open() fails (nothing is created) or a write
\* fails after open() (the truncated file stays).
SavePNGRaises ==
  /\ pc = "save_png"
  /\ pngFile' \in {pngFile, <<"partial">>}
  /\ pc' = "raised"
  /\ error' = "IOError: save_png"
  /\ UNCHANGED <<hostVars, dirExists, jsonFile, fbxFile, args, remapCall, uiCall, frame_start,
                 frame_end, total_frames, num_verts, num_frames,
                 texture_start_frame, original_frame, proxy_positions,
                 all_deltas, frame, minmax, image_data, uv_result, fbx_path,
                 result, timeAtCall, cursorWrites>>

\* json_data of lines 142-150.
JsonData ==
  [min |-> <<minmax[1], minmax[2], minmax[3]>>,
   max |-> <<minmax[4], minmax[5], minmax[6]>>,
   frames |-> num_frames,
   vertices |-> num_verts]

\* Step 7 left out: UV creation starts with no metadata written.
WriteJSON_Omitted ==
  /\ pc = "write_json"
  /\ pc' = "create_uv"
  /\ UNCHANGED <<hostVars, fileVars, args, remapCall, uiCall, localVars, timeAtCall,
                 cursorWrites>>

\* Step 7, lines 141-159.
WriteJSON ==
  /\ pc = "write_json"
  /\ jsonFile' = <<"complete", JsonData>>
  /\ pc' = "create_uv"
  /\ UNCHANGED <<hostVars, dirExists, pngFile, fbxFile, args, remapCall, uiCall, localVars,
                 timeAtCall, cursorWrites>>

\* An I/O error in write_json, before or after open().
WriteJSONRaises ==
  /\ pc = "write_json"
  /\ jsonFile' \in {jsonFile, <<"partial">>}
  /\ pc' = "raised"
  /\ error' = "IOError: write_json"
  /\ UNCHANGED <<hostVars, dirExists, pngFile, fbxFile, args, remapCall, uiCall, frame_start,
                 frame_end, total_frames, num_verts, num_frames,
                 texture_start_frame, original_frame, proxy_positions,
                 all_deltas, frame, minmax, image_data, uv_result, fbx_path,
                 result, timeAtCall, cursorWrites>>

\* ------------------------------------------------------------- create_vat_uv
\* Fractions <<n, d>>.
FMul(a, b) == <<a[1] * b[1], a[2] * b[2]>>

\* 1.0 / n
Recip(n) == <<1, n>>

\* u at the left edge of the pixel column (the 0.5 forgotten).
VatU_Edge(vtx_id, pixel_size_u) == FMul(<<vtx_id, 1>>, pixel_size_u)

\* u of vertex vtx_id (0-based), line 167: (vtx_id + 0.5) * pixel_size_u
VatU(vtx_id, pixel_size_u) == FMul(<<2 * vtx_id + 1, 2>>, pixel_size_u)

\* v, line 168: 0.5 * pixel_size_v
VatV(pixel_size_v) == FMul(<<1, 2>>, pixel_size_v)

\* Skipping whenever the set exists, force or not.
UVSkipped_IgnoresForce(sets, force) == UV_SET_NAME \in sets

\* Lines 135-138: the set exists and force is off.
UVSkipped(sets, force) == UV_SET_NAME \in sets /\ ~force

\* Lines 139-141: the sets left after the forced delete.
UVSetsAfterDelete(sets) == sets \ {UV_SET_NAME}

\* Lines 148-149 divide by the vertex count and by the frame count.
UVDivisionByZero(vertex_count, nframes) == vertex_count = 0 \/ nframes = 0

\* Lines 166-179: per vertex, the UVs of the vertex are set to (u, v).
UVLayout(vertex_count, nframes) ==
  [i \in 1..vertex_count |->
     <<VatU(i - 1, Recip(vertex_count)), VatV(Recip(nframes))>>]

\* utils.create_vat_uv(mesh_name, num_verts, num_frames, uv_set_name, force) as
\* a record: what it leaves on the mesh, how many editing commands it ran,
\* and its return value or exception.
create_vat_uv(nframes, force) ==
  LET existed == UV_SET_NAME \in uvSets
      vertex_count == numVertices
  IN IF ~hasShape
       THEN [sets |-> uvSets, current |-> currentUVSet, coords |-> uvCoords,
             edits |-> 0, raised |-> "ValueError: no mesh shape", ret |-> << >>]
     ELSE IF UVSkipped(uvSets, force)
       THEN [sets |-> uvSets, current |-> currentUVSet, coords |-> uvCoords,
             edits |-> 0, raised |-> "",
             ret |-> [created |-> FALSE, skipped |-> TRUE]]
       ELSE LET sets1 == IF existed THEN UVSetsAfterDelete(uvSets) ELSE uvSets
                coords1 == IF existed THEN << >> ELSE uvCoords
                edits1 == IF existed THEN 1 ELSE 0
            IN IF UVDivisionByZero(vertex_count, nframes)
                 THEN [sets |-> sets1, current |-> currentUVSet, coords |-> coords1,
                       edits |-> edits1, raised |-> "ZeroDivisionError",
                       ret |-> << >>]
                 ELSE [sets |-> sets1 \cup {UV_SET_NAME},
                       current |-> IF "map1" \in sets1 THEN "map1" ELSE UV_SET_NAME,
                       coords |-> UVLayout(vertex_count, nframes),
                       edits |-> edits1 + 3 + vertex_count
                                   + (IF "map1" \in sets1 THEN 1 ELSE 0),
                       raised |-> "",
                       ret |-> [created |-> TRUE, skipped |-> FALSE]]

\* Step 8, line 162.
CreateUV ==
  /\ pc = "create_uv"
  /\ LET r == create_vat_uv(num_frames, args.force_uv)
     IN /\ uvSets' = r.sets
        /\ currentUVSet' = r.current
        /\ uvCoords' = r.coords
        /\ uvEdits' = uvEdits + r.edits
        /\ IF r.raised # ""
             THEN /\ pc' = "raised"
                  /\ error' = r.raised
                  /\ uv_result' = uv_result
             ELSE /\ pc' = "export"
                  /\ error' = error
                  /\ uv_result' = r.ret
  /\ UNCHANGED <<meshExists, numVertices, playback, hostTime, hostPose, hasShape,
                 fileVars, args, remapCall, uiCall, frame_start, frame_end, total_frames, num_verts,
                 num_frames, texture_start_frame, original_frame,
                 proxy_positions, all_deltas, frame, minmax, image_data,
                 fbx_path, result, timeAtCall, cursorWrites>>

\* The frame count the window passes to create_vat_uv (src/ui.py line 308).
UINumFrames(fs, fe, skip) == fe - fs + 1

\* OpenVATWindow.create_vat_uv, src/ui.py lines 287-343: the 'Create VAT UV'
\* button, pressed with a mesh name entered and the spin boxes and check
\* boxes in any setting. An exception of utils.create_vat_uv is caught and
\* shown as status.
UICreateVatUV ==
  /\ pc = "idle"
  /\ \E fs \in Frames, fe \in Frames, skip \in BOOLEAN, force \in BOOLEAN :
       LET nf == UINumFrames(fs, fe, skip)
           r == create_vat_uv(nf, force)
           settings == [frame_start |-> fs, frame_end |-> fe,
                        skip_first_frame |-> skip, force |-> force]
       IN IF ~meshExists
            THEN /\ uiCall' = [settings |-> settings, num_frames |-> None,
                               status |-> "Mesh not found"]
                 /\ UNCHANGED <<uvSets, currentUVSet, uvCoords, uvEdits>>
            ELSE /\ uiCall' = [settings |-> settings, num_frames |-> Some(nf),
                               status |-> IF r.raised # "" THEN "Error"
                                          ELSE IF r.ret.skipped THEN "skipped"
                                          ELSE "Created"]
                 /\ uvSets' = r.sets
                 /\ currentUVSet' = r.current
                 /\ uvCoords' = r.coords
                 /\ uvEdits' = uvEdits + r.edits
  /\ pc' = "ui_done"
  /\ UNCHANGED <<meshExists, numVertices, playback, hostTime, hostPose, hasShape,
                 fileVars, args, remapCall, localVars, timeAtCall, cursorWrites>>

\* ------------------------------------------------------------- export, return
\* The export taken where the sampling loop left the cursor.
ExportFrame_LastSampled == frame_end

\* The frame the mesh is posed at for the export (line 168).
ExportFrame == frame_start

\* Step 9, lines 164-170 (exporter.export_fbx, src/exporter.py 20-76).
ExportMesh ==
  /\ pc = "export"
  /\ IF args.export_mesh
       THEN /\ hostTime' = set_current_frame(ExportFrame)
            /\ cursorWrites' = cursorWrites + 1
            /\ fbxFile' = <<"complete", hostTime', uvSets>>
            /\ fbx_path' = Some(1)
       ELSE /\ UNCHANGED <<hostTime, cursorWrites, fbxFile>>
            /\ fbx_path' = None
  /\ pc' = "restore"
  /\ UNCHANGED <<meshExists, numVertices, playback, hostPose, hasShape, uvSets,
                 currentUVSet, uvCoords, uvEdits, dirExists, pngFile, jsonFile,
                 args, remapCall, uiCall, frame_start, frame_end, total_frames, num_verts,
                 num_frames, texture_start_frame, original_frame,
                 proxy_positions, all_deltas, frame, minmax, image_data,
                 uv_result, result, error, timeAtCall>>

\* export_fbx raises (ensure_fbx_plugin, src/exporter.py 11-17, or FBXExport).
ExportMeshRaises ==
  /\ pc = "export"
  /\ args.export_mesh
  /\ hostTime' = set_current_frame(ExportFrame)
  /\ cursorWrites' = cursorWrites + 1
  /\ pc' = "raised"
  /\ error' = "RuntimeError: export_fbx"
  /\ UNCHANGED <<meshExists, numVertices, playback, hostPose, hasShape, uvSets,
                 currentUVSet, uvCoords, uvEdits, fileVars, args, remapCall, uiCall, frame_start,
                 frame_end, total_frames, num_verts, num_frames,
                 texture_start_frame, original_frame, proxy_positions,
                 all_deltas, frame, minmax, image_data, uv_result, fbx_path,
                 result, timeAtCall>>

\* Lines 172-190: restore the frame stored at line 66 and return.
RestoreAndReturn ==
  /\ pc = "restore"
  /\ hostTime' = set_current_frame(original_frame)
  /\ cursorWrites' = cursorWrites + 1
  /\ result' = [success |-> TRUE, fbx_path |-> fbx_path, width |-> num_verts,
                height |-> num_frames, num_verts |-> num_verts,
                num_frames |-> num_frames, total_frames |-> total_frames,
                skip_first_frame |-> args.skip_first_frame,
                uv_created |-> uv_result.created,
                uv_skipped |-> uv_result.skipped]
  /\ pc' = "returned"
  /\ UNCHANGED <<meshExists, numVertices, playback, hostPose, hasShape, uvSets,
                 currentUVSet, uvCoords, uvEdits, fileVars, args, remapCall, uiCall, frame_start,
                 frame_end, total_frames, num_verts, num_frames,
                 texture_start_frame, original_frame, proxy_positions,
                 all_deltas, frame, minmax, image_data, uv_result, fbx_path,
                 error, timeAtCall>>

\* ------------------------------------------------------------- remap_value alone
Coords == (-MaxCoord)..MaxCoord
TargetRanges == {<<0, 255>>, <<16, 235>>}

InitRemap ==
  /\ Init
  /\ ~meshExists
  /\ hostTime = 2

\* utils.remap_value(value, old_min, old_max, new_min, new_max) is called.
RemapCall ==
  /\ remapCall = << >>
  /\ \E v \in Coords, lo \in Coords, hi \in Coords, t \in TargetRanges :
       remapCall' = [value |-> v, old_min |-> lo, old_max |-> hi,
                     new_min |-> t[1], new_max |-> t[2],
                     result |-> remap_value(v, lo, hi, t[1], t[2])]
  /\ UNCHANGED <<encodeVars, uiCall>>

NextRemap == RemapCall

SpecRemap == InitRemap /\ [][NextRemap]_vars

Next ==
  \/ Call
  \/ Validate
  \/ EnsureDirectory
  \/ CaptureProxy
  \/ CaptureProxyRaises
  \/ SampleFrame
  \/ SampleFrameRaises
  \/ Quantize
  \/ SavePNG
  \/ SavePNGRaises
  \/ WriteJSON
  \/ WriteJSONRaises
  \/ CreateUV
  \/ ExportMesh
  \/ ExportMeshRaises
  \/ RestoreAndReturn
  \/ UICreateVatUV


Spec == Init /\ [][Next]_vars
\* ------------------------------------------------------------- properties
Ended == pc \in {"returned", "raised"}

Started == pc \notin {"idle", "validate", "ui_done"}

NothingWritten ==
  /\ ~dirExists
  /\ pngFile = <<"absent">>
  /\ jsonFile = <<"absent">>
  /\ fbxFile = <<"absent">>

ValidationErrors == {"ValueError: mesh not found", "ValueError: skip first frame"}

\* C1: whenever a call of encode_vat that moved the host time cursor has
\* ended, by return or by exception, the host's current time is the one that
\* was current when the call began.
C1_CursorRestoredOnEveryExit ==
  (Ended /\ cursorWrites > 0) => hostTime = timeAtCall

\* C2: a call on a mesh that does not exist, or with skip_first_frame and
\* fewer than two frames in the range the call works on, ends in a validation
\* error with the time cursor never set, no output directory and no output
\* file.
C2_ValidationFailsFast ==
  (Started /\ (~meshExists
                 \/ (args.skip_first_frame /\ frame_end - frame_start + 1 < 2)))
    => /\ pc = "raised"
       /\ error \in ValidationErrors
       /\ cursorWrites = 0
       /\ hostTime = timeAtCall
       /\ NothingWritten

\* C2, witness: the single-frame skip_first_frame call was rejected.
C2_Witness ==
  /\ pc = "raised"
  /\ meshExists
  /\ args.skip_first_frame
  /\ total_frames = 1
  /\ error = "ValueError: skip first frame"

\* C3: a call on a mesh with no vertices, or with frame_end < frame_start
\* and skip_first_frame off, is rejected before the time cursor, the output
\* directory or the UV sets are touched.
C3_EmptyInputRejected ==
  (Started /\ meshExists
     /\ (numVertices = 0 \/ (~args.skip_first_frame /\ frame_end < frame_start)))
    => /\ pc = "raised"
       /\ cursorWrites = 0
       /\ ~dirExists
       /\ uvEdits = 0

\* The global range and the pixel grid have been computed.
Quantized == minmax # << >>

\* The delta of vertex i on axis a at frame f, from what the host returned.
HostDelta(f, i, a) == Pose(hostPose[f], i)[a] - Pose(hostPose[frame_start], i)[a]

\* C4: after a successful run with frame_end >= frame_start, total_frames is
\* frame_end - frame_start + 1, num_frames is total_frames (less one when
\* skipping), the grid has num_frames rows, row k holds the quantized deltas
\* of frame texture_start_frame + k with one pixel per vertex in vertex
\* order, and the PNG height, the metadata 'frames' and the returned
\* 'height' are that row count.
C4_GridRowsAndHeights ==
  (pc = "returned" /\ frame_end >= frame_start) =>
    LET skip == args.skip_first_frame
        first == IF skip THEN frame_start + 1 ELSE frame_start
        rows == IF skip THEN total_frames - 1 ELSE total_frames
    IN /\ total_frames = frame_end - frame_start + 1
       /\ num_frames = rows
       /\ Len(image_data) = rows
       /\ \A k \in 1..rows :
            /\ Len(image_data[k]) = numVertices
            /\ \A i \in 1..numVertices :
                 image_data[k][i] =
                   <<remap_value(HostDelta(first + k - 1, i, 1), minmax[1], minmax[4], 0, 255),
                     remap_value(HostDelta(first + k - 1, i, 2), minmax[2], minmax[5], 0, 255),
                     remap_value(HostDelta(first + k - 1, i, 3), minmax[3], minmax[6], 0, 255)>>
       /\ pngFile[1] = "complete"
       /\ pngFile[3] = rows
       /\ pngFile[4] = image_data
       /\ jsonFile[2].frames = rows
       /\ result.height = rows

\* C4, witness: a skipping run over three frames returned a grid of two
\* different rows whose two pixels differ.
C4_Witness ==
  /\ pc = "returned"
  /\ args.skip_first_frame
  /\ total_frames = 3
  /\ numVertices = 2
  /\ Len(image_data) = 2
  /\ image_data[1] # image_data[2]
  /\ image_data[1][1] # image_data[1][2]

\* C5: without skip_first_frame, every pixel of row 0 of the grid is
\* (remap(0, min_x, max_x), remap(0, min_y, max_y), remap(0, min_z, max_z)).
C5_RowZeroIsRemapOfZero ==
  (Quantized /\ ~args.skip_first_frame /\ Len(image_data) >= 1) =>
    /\ Len(image_data[1]) = numVertices
    /\ \A i \in 1..numVertices :
         image_data[1][i] = <<remap_value(0, minmax[1], minmax[4], 0, 255),
                              remap_value(0, minmax[2], minmax[5], 0, 255),
                              remap_value(0, minmax[3], minmax[6], 0, 255)>>

\* C5, witness: row 0 of a moving two-vertex mesh, where remap(0) is neither
\* end of the range on x.
C5_Witness ==
  /\ Quantized
  /\ ~args.skip_first_frame
  /\ numVertices = 2
  /\ Len(image_data) >= 2
  /\ image_data[1][1][1] \notin {0, 255}
  /\ image_data[2] # image_data[1]

\* What row 0 decodes to on axis a for vertex i, times 255:
\* 255 * (min + pixel/255 * (max - min)).
RowZeroDecoded255(i, a) ==
  255 * minmax[a] + image_data[1][i][a] * (minmax[a + 3] - minmax[a])

\* C6 as claimed: without skip_first_frame, row 0 decodes to exactly zero
\* delta for every vertex and axis.
C6_RowZeroDecodesExactly ==
  (Quantized /\ ~args.skip_first_frame /\ Len(image_data) >= 1) =>
    \A i \in 1..Len(image_data[1]) : \A a \in 1..3 : RowZeroDecoded255(i, a) = 0

\* C6 as amended: row 0 decodes to a delta d with -(max - min)/255 < d <= 0,
\* and to exactly 0 just when the range is degenerate or 255 * min is a
\* multiple of max - min.
C6_RowZeroDecodesWithinOneStep ==
  (Quantized /\ ~args.skip_first_frame /\ Len(image_data) >= 1) =>
    \A i \in 1..Len(image_data[1]) : \A a \in 1..3 :
      LET e == RowZeroDecoded255(i, a)
          d == minmax[a + 3] - minmax[a]
      IN /\ e <= 0
         /\ d >= 0
         /\ (d > 0 => e > -d)
         /\ (e = 0 <=> (d = 0 \/ (255 * minmax[a]) % d = 0))

\* C6, witness: a row-0 pixel that decodes below zero.
C6_Witness ==
  /\ Quantized
  /\ ~args.skip_first_frame
  /\ Len(image_data) >= 1
  /\ \E i \in 1..Len(image_data[1]) : \E a \in 1..3 : RowZeroDecoded255(i, a) < 0

\* C7: remap_value into [0, 255] with min < max and min <= v <= max satisfies
\* |min + result/255 * (max - min) - v| <= (max - min)/255 (both sides times
\* 255 here); with max = min it returns new_min for every v.
C7_RemapRoundTrip ==
  remapCall # << >> =>
    LET r == remapCall
        d == r.old_max - r.old_min
    IN /\ (d = 0 => r.result = r.new_min)
       /\ (r.new_min = 0 /\ r.new_max = 255 /\ d > 0
             /\ r.old_min <= r.value /\ r.value <= r.old_max)
            => Abs(255 * r.old_min + r.result * d - 255 * r.value) <= d

\* C7, witness: a value strictly inside a proper range that 8 bits cannot
\* represent exactly.
C7_Witness ==
  /\ remapCall # << >>
  /\ remapCall.new_min = 0 /\ remapCall.new_max = 255
  /\ remapCall.old_min < remapCall.value
  /\ remapCall.value < remapCall.old_max
  /\ 255 * remapCall.old_min + remapCall.result * (remapCall.old_max - remapCall.old_min)
       # 255 * remapCall.value

\* The host returned the same vertex positions at every frame it was asked for.
HostStatic ==
  \A f \in DOMAIN hostPose : \A g \in DOMAIN hostPose :
    Positions(hostPose[f]) = Positions(hostPose[g])

AllPixelsZero(grid) ==
  \A y \in 1..Len(grid) : \A x \in 1..Len(grid[y]) : grid[y][x] = <<0, 0, 0>>

\* C8: if the host returns identical positions at every sampled frame, the
\* global range has min = max on all three axes and every pixel of the grid,
\* in memory and as written, is (0, 0, 0).
C8_StaticMeshAllZero ==
  (Quantized /\ HostStatic) =>
    /\ \A a \in 1..3 : minmax[a] = minmax[a + 3]
    /\ AllPixelsZero(image_data)
    /\ (pngFile[1] = "complete" => AllPixelsZero(pngFile[4]))

\* C8 on a mesh with vertices and a frame range that is not empty.
C8_StaticMeshAllZeroWhenSampled ==
  (Quantized /\ HostStatic /\ numVertices >= 1 /\ frame_end >= frame_start) =>
    /\ \A a \in 1..3 : minmax[a] = minmax[a + 3]
    /\ AllPixelsZero(image_data)
    /\ (pngFile[1] = "complete" => AllPixelsZero(pngFile[4]))

\* create_vat_uv returned created=True in this call.
UVCreated == uv_result # << >> /\ uv_result.created

\* C9: with V >= 1 vertices and F >= 1 frames, the created layout gives
\* vertex i (0-based) u = (i + 0.5)/V: strictly inside (0, 1), consecutive
\* vertices exactly 1/V apart and increasing, no two vertices with the same
\* u; and v = 0.5/F for every vertex.
C9_UVLayout ==
  (UVCreated /\ numVertices >= 1 /\ num_frames >= 1) =>
    /\ Len(uvCoords) = numVertices
    /\ \A i \in 1..numVertices :
         LET u == uvCoords[i][1]
             v == uvCoords[i][2]
         IN /\ u[2] > 0 /\ v[2] > 0
            /\ u[1] * 2 * numVertices = (2 * (i - 1) + 1) * u[2]
            /\ 0 < u[1] /\ u[1] < u[2]
            /\ v[1] * 2 * num_frames = v[2]
            /\ v[1] * uvCoords[1][2][2] = uvCoords[1][2][1] * v[2]
    /\ \A i \in 1..(numVertices - 1) :
         LET u == uvCoords[i][1]
             w == uvCoords[i + 1][1]
         IN /\ w[1] * u[2] > u[1] * w[2]
            /\ (w[1] * u[2] - u[1] * w[2]) * numVertices = u[2] * w[2]
    /\ \A i \in 1..numVertices : \A j \in 1..numVertices :
         i # j => uvCoords[i][1][1] * uvCoords[j][1][2]
                    # uvCoords[j][1][1] * uvCoords[i][1][2]

\* C9, witness: a layout created for two vertices and two texture rows.
C9_Witness ==
  /\ UVCreated
  /\ numVertices = 2
  /\ num_frames = 2
  /\ Len(uvCoords) = 2

\* C10: a return of create_vat_uv on a mesh that has the set already: with
\* force off nothing on the mesh is edited and the result is skipped, not
\* created; with force on the set is deleted and laid out again and the
\* result is created, not skipped.  Every return has exactly one of
\* created/skipped, and the set exists afterwards.
C10_SkipIfExistsOverwriteIfForced ==
  [][(pc = "create_uv" /\ pc' = "export") =>
       LET existed == UV_SET_NAME \in uvSets
       IN /\ (existed /\ ~args.force_uv) =>
               /\ uv_result'.skipped /\ ~uv_result'.created
               /\ UNCHANGED <<uvSets, currentUVSet, uvCoords, uvEdits>>
          /\ (existed /\ args.force_uv) =>
               /\ uv_result'.created /\ ~uv_result'.skipped
               /\ uvEdits' >= uvEdits + 2
               /\ uvCoords' = UVLayout(numVertices, num_frames)
               /\ uvCoords' # uvCoords
          /\ uv_result'.created # uv_result'.skipped
          /\ UV_SET_NAME \in uvSets']_vars

\* C10, witness: a forced call returned created after deleting the set that
\* existed (one delete, three set-up commands, an edit per vertex, map1 made
\* current again).
C10_Witness ==
  /\ pc = "export"
  /\ args.force_uv
  /\ UVCreated
  /\ numVertices >= 1
  /\ uvEdits = 5 + numVertices

\* The deltas of axis a over every frame of frame_start..frame_end, the first
\* one included, from what the host returned.
SampledAxis(a) ==
  {HostDelta(f, i, a) : f \in frame_start..frame_end, i \in 1..numVertices}

\* C11: for a run with at least one vertex and frame_end >= frame_start the
\* stored range of every axis is the minimum and the maximum of the deltas of
\* all sampled frames, the first frame included even when skip_first_frame
\* keeps it out of the texture, and so min <= 0 <= max on every axis.
C11_RangeCoversAllSampledFrames ==
  (Quantized /\ numVertices >= 1 /\ frame_end >= frame_start)
    => \A a \in 1..3 :
         /\ minmax[a] = MinOf(SampledAxis(a))
         /\ minmax[a + 3] = MaxOf(SampledAxis(a))
         /\ minmax[a] <= 0
         /\ 0 <= minmax[a + 3]
         /\ jsonFile[1] = "complete"
              => /\ jsonFile[2].min[a] = minmax[a]
                 /\ jsonFile[2].max[a] = minmax[a + 3]

\* C11, witness: a skip_first_frame run whose metadata is written and whose
\* minimum on x is the zero of the excluded first frame alone.
C11_Witness ==
  /\ jsonFile[1] = "complete"
  /\ args.skip_first_frame
  /\ numVertices >= 1
  /\ minmax[1] = 0
  /\ \A f \in texture_start_frame..frame_end :
       \A i \in 1..numVertices : HostDelta(f, i, 1) > 0

\* C12: once a call on an existing mesh has fixed its frame range, a bound
\* given explicitly (any integer, 0 included) is the bound the call works
\* with, and an omitted bound is the host playback bound.
C12_ExplicitBoundsKept ==
  (Started /\ meshExists)
    => /\ frame_start = IF args.frame_start = None THEN get_frame_range[1]
                                                   ELSE args.frame_start[1]
       /\ frame_end = IF args.frame_end = None THEN get_frame_range[2]
                                               ELSE args.frame_end[1]

\* C13: when a call has ended, no output file is left partially written, and
\* a complete position texture on disk has its complete metadata beside it.
C13_NoPartialOutput ==
  Ended
    => /\ pngFile[1] # "partial"
       /\ jsonFile[1] # "partial"
       /\ pngFile[1] = "complete" => jsonFile[1] = "complete"

\* The number four big-endian bytes stand for.
BEValue(b) == ((b[1] * 256 + b[2]) * 256 + b[3]) * 256 + b[4]

\* What a zlib stream made of one stored block inflates to.
Inflate(z) == SubSeq(z, 8, 7 + z[4] + 256 * z[5])

\* C14: the file save_png writes is the 8-byte PNG signature followed by
\* exactly the chunks IHDR, IDAT, IEND. Each chunk is the big-endian length
\* of its payload, its type, its payload and a CRC over type and payload.
\* IHDR declares the given width and height, bit depth 8, colour type 2 and
\* interlace 0. The inflated IDAT payload has height * (1 + 3 * width) bytes:
\* per row, top row first, a filter byte 0 and then the R, G, B bytes of the
\* row's pixels in order. IEND has no payload.
C14_PngLayout ==
  pngFile[1] = "complete"
    => LET s == pngFile[5]
           w == num_verts
           h == num_frames
           ctype(k) == SubSeq(s[3 * k], 1, 4)
           payload(k) == SubSeq(s[3 * k], 5, Len(s[3 * k]))
           raw == Inflate(payload(2))
           stride == 1 + 3 * w
       IN /\ Len(s) = 10
          /\ s[1] = <<137, 80, 78, 71, 13, 10, 26, 10>>
          /\ <<ctype(1), ctype(2), ctype(3)>>
               = <<<<73, 72, 68, 82>>, <<73, 68, 65, 84>>, <<73, 69, 78, 68>>>>
          /\ \A k \in 1..3 :
               /\ Len(s[3 * k - 1]) = 4
               /\ BEValue(s[3 * k - 1]) = Len(payload(k))
               /\ s[3 * k + 1] = crc32(ctype(k) \o payload(k))
          /\ Len(payload(1)) = 13
          /\ BEValue(SubSeq(payload(1), 1, 4)) = w
          /\ BEValue(SubSeq(payload(1), 5, 8)) = h
          /\ payload(1)[9] = 8
          /\ payload(1)[10] = 2
          /\ payload(1)[13] = 0
          /\ Len(raw) = h * stride
          /\ \A y \in 1..h :
               /\ raw[(y - 1) * stride + 1] = 0
               /\ \A x \in 1..w : \A c \in 1..3 :
                    raw[(y - 1) * stride + 1 + 3 * (x - 1) + c] = image_data[y][x][c]
          /\ payload(3) = << >>

\* C14, witness: a written texture of at least two rows and two columns
\* whose corner pixels differ.
C14_Witness ==
  /\ pngFile[1] = "complete"
  /\ num_verts >= 2
  /\ num_frames >= 2
  /\ image_data[1][1] # image_data[2][2]
  /\ image_data[1][2] # image_data[2][1]

\* The position texture and the metadata of this run are completely written.
OutputsWritten ==
  /\ pngFile[1] = "complete"
  /\ pngFile[4] = image_data
  /\ jsonFile = <<"complete", JsonData>>

\* C15: the step that creates the VAT UV set is taken with the PNG and the
\* JSON completely written, the step that exports the mesh is taken with UV
\* creation returned, and neither step, whether it returns or raises,
\* changes the PNG or the JSON.
C15_OutputsThenUVThenExport ==
  [][/\ pc = "create_uv"
          => /\ OutputsWritten
             /\ fbxFile[1] = "absent"
             /\ pngFile' = pngFile
             /\ jsonFile' = jsonFile
     /\ pc = "export"
          => /\ OutputsWritten
             /\ uv_result # << >>
             /\ pngFile' = pngFile
             /\ jsonFile' = jsonFile
     /\ fbxFile' # fbxFile => pc = "export"]_vars

\* C15, witness: create_vat_uv or export_fbx raised and the texture and the
\* metadata are on disk.
C15_Witness ==
  /\ pc = "raised"
  /\ error \in {"ValueError: no mesh shape", "RuntimeError: export_fbx"}
  /\ OutputsWritten

\* C16: when export_mesh is true, export_fbx is invoked with the host time at
\* frame_start and with UV creation returned, whatever the frame range and
\* skip_first_frame are, and a returned call has exported; when export_mesh
\* is false, export_fbx is never invoked and the returned fbx_path is None.
C16_ExportAtFrameStartAfterUV ==
  /\ fbxFile[1] = "complete"
       => /\ args.export_mesh
          /\ fbxFile[2] = 2 * frame_start
          /\ uv_result # << >>
  /\ error = "RuntimeError: export_fbx"
       => /\ args.export_mesh
          /\ hostTime = 2 * frame_start
          /\ uv_result # << >>
  /\ pc = "returned"
       => /\ args.export_mesh => fbxFile[1] = "complete" /\ result.fbx_path # None
          /\ ~args.export_mesh => fbxFile[1] = "absent" /\ result.fbx_path = None

\* C16, witness: a returned skip_first_frame call that exported the mesh,
\* over more than one frame and from a cursor that was not at frame_start.
C16_Witness ==
  /\ pc = "returned"
  /\ args.export_mesh
  /\ args.skip_first_frame
  /\ frame_end > frame_start
  /\ original_frame # frame_start
  /\ fbxFile[1] = "complete"

\* C17: every channel of every pixel in the written texture is in 0..255;
\* for a run with at least one vertex and frame_end >= frame_start, every
\* delta quantized into the grid lies within the stored range of its axis,
\* its channel is in 0..255, the minimum of the axis maps to 0 and, when
\* max > min, the maximum maps to 255.
C17_ChannelsInByteRange ==
  /\ pngFile[1] = "complete"
       => \A y \in 1..pngFile[3] : \A x \in 1..pngFile[2] : \A c \in 1..3 :
            pngFile[4][y][x][c] \in 0..255
  /\ (Quantized /\ numVertices >= 1 /\ frame_end >= frame_start)
       => \A f \in texture_start_frame..frame_end :
            \A i \in 1..numVertices : \A a \in 1..3 :
              LET d == all_deltas[f][i][a]
                  v == image_data[f - texture_start_frame + 1][i][a]
              IN /\ minmax[a] <= d
                 /\ d <= minmax[a + 3]
                 /\ v \in 0..255
                 /\ d = minmax[a] => v = 0
                 /\ (d = minmax[a + 3] /\ minmax[a + 3] > minmax[a]) => v = 255

\* C17, witness: a written texture whose x channel takes 0, 255 and a value
\* in between.
C17_Witness ==
  /\ pngFile[1] = "complete"
  /\ numVertices >= 1
  /\ minmax[4] > minmax[1]
  /\ \E y1, y2, y3 \in 1..num_frames : \E x1, x2, x3 \in 1..num_verts :
       /\ image_data[y1][x1][1] = 0
       /\ image_data[y2][x2][1] = 255
       /\ image_data[y3][x3][1] \in 1..254

\* C18: when 'Create VAT UV' has called create_vat_uv with settings that
\* 'Encode VAT' accepts, the frame count it passed is the num_frames
\* encode_vat passes for these settings, the texture height, and a created
\* layout has v = 0.5 / height on every vertex.
C18_UIFrameCountIsTextureHeight ==
  (pc = "ui_done" /\ uiCall.num_frames # None /\ numVertices >= 1 /\ hasShape)
    => LET st == uiCall.settings
           total == st.frame_end - st.frame_start + 1
           height == TextureRows(total, st.skip_first_frame)
       IN height >= 1
            => /\ uiCall.num_frames = Some(height)
               /\ uiCall.status = "Created"
                    => \A i \in 1..Len(uvCoords) :
                         uvCoords[i][2][1] * 2 * height = uvCoords[i][2][2]

=============================================================================
